---- MODULE Spec2Model ----
(***************************************************************************)
(* A model of app.py, the Streamlit script of the scuba diving agent.      *)
(*                                                                         *)
(* The script is re-executed top to bottom on every user interaction (a    *)
(* "run").  The only state that survives a run is st.session_state.  The   *)
(* model has three specifications:                                         *)
(*   Spec      the session: a sequence of script runs, each one walking    *)
(*             through secrets, spot data, the widgets, the trigger        *)
(*             handler and the rendering of the cached result;             *)
(*   SpecFetch get_meteo_data and the choice of the representative row,    *)
(*             applied to every pair of upstream responses within bounds;  *)
(*   SpecCode  the weather-code translation, applied to every code within  *)
(*             bounds.                                                     *)
(*                                                                         *)
(* TLA+ strings are ASCII, so the Japanese literals of the source are      *)
(* written in romaji; a text is a sequence of tokens where its content     *)
(* matters (the weather labels) and one token elsewhere.                   *)
(***************************************************************************)
EXTENDS Integers, Sequences, FiniteSets, TLC

VARIABLES
    pc,                 \* position of the script (or of the function under check)
    secrets_env,        \* the secret store as this run finds it
    csv_env,            \* diving_spots.csv as this run finds it
    event,              \* the interaction that started this run
    DIVING_SPOTS,       \* app.py:28
    selected_spot_name, \* app.py:147
    selected_date,      \* app.py:149
    start_btn,          \* app.py:154
    marine_res,         \* outcome of the request of app.py:77
    weather_res,        \* outcome of the request of app.py:78
    search_res,         \* outcome of the call of app.py:116
    gen_res,            \* outcome of the call of app.py:130
    df,                 \* app.py:161 and app.py:178
    bio_info,           \* app.py:162
    midday_data,        \* app.py:184
    session_state,      \* st.session_state
    page,               \* what this run has put on the page, in order
    calls,              \* the external calls this run has issued, in order
    last_trigger,       \* history: what the latest trigger handler computed
    code,               \* SpecCode: the cell under translation
    label               \* SpecCode: its label

vars == <<pc, secrets_env, csv_env, event, DIVING_SPOTS, selected_spot_name,
          selected_date, start_btn, marine_res, weather_res, search_res,
          gen_res, df, bio_info, midday_data, session_state, page, calls,
          last_trigger, code, label>>

-----------------------------------------------------------------------------
(* Bounds *)

\* longest hourly array of an upstream response (SpecFetch)
MaxLen == 3

\* the weather codes of SpecCode are -MaxCode .. MaxCode
MaxCode == 1000

-----------------------------------------------------------------------------
(* Python values *)

\* a Python dict is a function on its keys; {} is the function on no key
EmptyDict == <<>>

\* dict.get(key, default)
Get(d, key, default) == IF key \in DOMAIN d THEN d[key] ELSE default

\* JSON numbers and JSON null, as the elements of an hourly array
Num(v) == [t |-> "int", v |-> v]
Null == [t |-> "null", v |-> 0]

\* the cells of a pandas column that held null: float64 and NaN, or None
Float(v) == [t |-> "float", v |-> v]
NaN == [t |-> "nan", v |-> 0]
NoneCell == [t |-> "none", v |-> 0]

\* a function's value: returned, or an exception raised
Return(v) == [raised |-> FALSE, exc |-> "", value |-> v]
Raise(e) == [raised |-> TRUE, exc |-> e, value |-> <<>>]

\* Python's None, where a DataFrame or a row may stand
None == [kind |-> "None", nrows |-> 0, data |-> EmptyDict]

-----------------------------------------------------------------------------
(* Text *)

Digit(d) ==
    CASE d = 0 -> "0" [] d = 1 -> "1" [] d = 2 -> "2" [] d = 3 -> "3"
      [] d = 4 -> "4" [] d = 5 -> "5" [] d = 6 -> "6" [] d = 7 -> "7"
      [] d = 8 -> "8" [] d = 9 -> "9"

RECURSIVE NatStr(_)
NatStr(n) == IF n < 10 THEN <<Digit(n)>> ELSE NatStr(n \div 10) \o <<Digit(n % 10)>>

\* str() of an int
IntStr(n) == IF n < 0 THEN <<"-">> \o NatStr(0 - n) ELSE NatStr(n)

\* str() of a cell: 61 -> "61", 61.0 -> "61.0", NaN -> "nan", None -> "None"
CellStr(x) ==
    CASE x.t = "int" -> IntStr(x.v)
      [] x.t = "float" -> IntStr(x.v) \o <<".", "0">>
      [] x.t = "nan" -> <<"n", "a", "n">>
      [] OTHER -> <<"N", "o", "n", "e">>

\* part in whole
Contains(whole, part) ==
    \E i \in 0..(Len(whole) - Len(part)) :
        SubSeq(whole, i + 1, i + Len(part)) = part

-----------------------------------------------------------------------------
(* app.py:34-41 and the translation of app.py:101 *)

\* 0 快晴, 1 晴れ, 2 一部曇り, 3 曇り, 45 霧, 48 着氷性の霧, 51/53/55 霧雨(軽/中/強),
\* 61/63/65 雨(軽/中/強), 80/81/82 にわか雨(軽/中/強)
WEATHER_CODE_MAP ==
    [c \in {0, 1, 2, 3, 45, 48, 51, 53, 55, 61, 63, 65, 80, 81, 82} |->
        CASE c = 0 -> <<"kaisei">>
          [] c = 1 -> <<"hare">>
          [] c = 2 -> <<"ichibu", "kumori">>
          [] c = 3 -> <<"kumori">>
          [] c = 45 -> <<"kiri">>
          [] c = 48 -> <<"chakuhyousei", "no", "kiri">>
          [] c = 51 -> <<"kirisame", "(", "kei", ")">>
          [] c = 53 -> <<"kirisame", "(", "chuu", ")">>
          [] c = 55 -> <<"kirisame", "(", "kyou", ")">>
          [] c = 61 -> <<"ame", "(", "kei", ")">>
          [] c = 63 -> <<"ame", "(", "chuu", ")">>
          [] c = 65 -> <<"ame", "(", "kyou", ")">>
          [] c = 80 -> <<"niwakaame", "(", "kei", ")">>
          [] c = 81 -> <<"niwakaame", "(", "chuu", ")">>
          [] c = 82 -> <<"niwakaame", "(", "kyou", ")">>]

\* f"不明({x})"
FallbackLabel(x) == <<"fu", "mei", "(">> \o CellStr(x) \o <<")">>

\* a mutant of weather_label: the lookup without its default (WEATHER_CODE_MAP[x])
weather_label_no_default(x) ==
    IF x.t \in {"int", "float"} /\ x.v \in DOMAIN WEATHER_CODE_MAP
    THEN WEATHER_CODE_MAP[x.v]
    ELSE <<>>

\* lambda x: WEATHER_CODE_MAP.get(x, f"不明({x})").  A float cell equal to an int
\* key finds that key (61.0 == 61 and they hash alike); NaN and None find none.
weather_label(x) ==
    IF x.t \in {"int", "float"} /\ x.v \in DOMAIN WEATHER_CODE_MAP
    THEN WEATHER_CODE_MAP[x.v]
    ELSE FallbackLabel(x)

-----------------------------------------------------------------------------
(* pandas, as far as app.py:87-101 and app.py:184 use it *)

\* an element of the 'time' array, "2024-07-15T12:00", and its Timestamp
Iso(h) == [t |-> "iso", v |-> h]
to_datetime(times) == [i \in DOMAIN times |-> [t |-> "Timestamp", v |-> times[i].v]]

\* the column pandas makes of a list: int64 when every element is a number,
\* float64 with NaN for null when some are, object (of None) when none is
AsColumn(arr) ==
    IF \A i \in DOMAIN arr : arr[i] # Null THEN arr
    ELSE IF \A i \in DOMAIN arr : arr[i] = Null
         THEN [i \in DOMAIN arr |-> NoneCell]
         ELSE [i \in DOMAIN arr |-> IF arr[i] = Null THEN NaN ELSE Float(arr[i].v)]

\* a mutant of pd_DataFrame: arrays of different lengths are aligned and padded
\* with NaN to the longest, as a dict of Series would be
pd_DataFrame_padded(cols) ==
    LET lengths == {Len(cols[i][2]) : i \in DOMAIN cols}
        n == CHOOSE k \in lengths : \A l \in lengths : l <= k
        pad(arr) == [i \in 1..n |-> IF i <= Len(arr) THEN arr[i] ELSE Null]
    IN  Return([kind |-> "DataFrame", nrows |-> n,
                data |-> [c \in {cols[i][1] : i \in DOMAIN cols} |->
                            LET i == CHOOSE j \in DOMAIN cols : cols[j][1] = c
                            IN  AsColumn(pad(cols[i][2]))]])

\* pd.DataFrame(dict of arrays): "All arrays must be of the same length", else a
\* table on RangeIndex(n)
pd_DataFrame(cols) ==
    LET lengths == {Len(cols[i][2]) : i \in DOMAIN cols}
    IN  IF Cardinality(lengths) > 1 THEN Raise("ValueError")
        ELSE LET n == CHOOSE k \in lengths : TRUE
             IN  Return([kind |-> "DataFrame", nrows |-> n,
                         data |-> [c \in {cols[i][1] : i \in DOMAIN cols} |->
                                     LET i == CHOOSE j \in DOMAIN cols : cols[j][1] = c
                                     IN  AsColumn(cols[i][2])]])

\* len(df)
Rows(frame) == frame.nrows

\* df.iloc[k]
iloc(frame, k) ==
    IF k < 0 - Rows(frame) \/ k >= Rows(frame) THEN Raise("IndexError")
    ELSE LET i == IF k < 0 THEN Rows(frame) + k + 1 ELSE k + 1
         IN  Return([name |-> i - 1,
                     data |-> [c \in DOMAIN frame.data |-> frame.data[c][i]]])

-----------------------------------------------------------------------------
(* get_meteo_data, app.py:45-106 *)

\* an upstream response: the request failed in transport, the body is no JSON,
\* or the body is a JSON object (status 200 with 'hourly', or an error status
\* with {"error": true, "reason": ...})
TransportError == [kind |-> "transport_error", status |-> 0, body |-> EmptyDict]
NotJson == [kind |-> "not_json", status |-> 200, body |-> EmptyDict]
ErrorJson == [kind |-> "json", status |-> 400,
              body |-> [error |-> TRUE, reason |-> "reason"]]
OkJson(hourly) == [kind |-> "json", status |-> 200, body |-> [hourly |-> hourly]]

\* st.error(f"気象データの取得に失敗しました: {e}")
MeteoError(e) == [widget |-> "error", text |-> "meteo_failed", cause |-> e]

\* app.py:85-98: the columns handed to pd.DataFrame, in order
\* (気温(°C), 降水量(mm), 風速(km/h), 風向(°), 天気コード, 波高(m), 波向(°),
\*  波の強さ/周期(s), うねり高(m))
FrameColumns(hourly_marine, hourly_weather) ==
    LET times == Get(hourly_marine, "time", <<>>)
    IN  <<
          <<"time", to_datetime(times)>>,
          <<"kion_C", Get(hourly_weather, "temperature_2m", <<>>)>>,
          <<"kousuiryou_mm", Get(hourly_weather, "precipitation", <<>>)>>,
          <<"fuusoku_kmh", Get(hourly_weather, "wind_speed_10m", <<>>)>>,
          <<"fuukou_deg", Get(hourly_weather, "wind_direction_10m", <<>>)>>,
          <<"tenki_code", Get(hourly_weather, "weather_code", <<>>)>>,
          <<"hakou_m", Get(hourly_marine, "wave_height", <<>>)>>,
          <<"hakou_deg", Get(hourly_marine, "wave_direction", <<>>)>>,
          <<"shuuki_s", Get(hourly_marine, "wave_period", <<>>)>>,
          <<"uneri_m", Get(hourly_marine, "swell_wave_height", <<>>)>>
        >>

\* app.py:101: df["天気"] = df["天気コード"].map(...)
WithLabels(frame) ==
    [frame EXCEPT !.data =
        [c \in DOMAIN frame.data \cup {"tenki"} |->
            IF c = "tenki"
            THEN [i \in 1..Rows(frame) |-> weather_label(frame.data["tenki_code"][i])]
            ELSE frame.data[c]]]

\* The result of get_meteo_data(lat, lon, date) for the two upstream outcomes:
\* the value returned, the st.error calls made and the requests issued.
get_meteo_data(marine, weather) ==
    LET failed(reqs, e) == [df |-> None, errors |-> <<MeteoError(e)>>, calls |-> reqs]
    IN  IF marine.kind = "transport_error"
            THEN failed(<<"marine">>, "ConnectionError")
        ELSE IF marine.kind = "not_json"
            THEN failed(<<"marine">>, "JSONDecodeError")
        ELSE IF weather.kind = "transport_error"
            THEN failed(<<"marine", "forecast">>, "ConnectionError")
        ELSE IF weather.kind = "not_json"
            THEN failed(<<"marine", "forecast">>, "JSONDecodeError")
        ELSE LET hourly_marine == Get(marine.body, "hourly", EmptyDict)
                 hourly_weather == Get(weather.body, "hourly", EmptyDict)
                 frame == pd_DataFrame(FrameColumns(hourly_marine, hourly_weather))
             IN  IF frame.raised
                 THEN failed(<<"marine", "forecast">>, frame.exc)
                 ELSE [df |-> WithLabels(frame.value), errors |-> <<>>,
                       calls |-> <<"marine", "forecast">>]

-----------------------------------------------------------------------------
(* the representative row, app.py:181-184 *)

target_hour == 12

\* a mutant of midday_row: the last noon row instead of the first
midday_row_last(frame) ==
    LET noon == {i \in 1..Rows(frame) : frame.data["time"][i].v = target_hour}
    IN  IF noon # {}
        THEN iloc(frame, (CHOOSE i \in noon : \A j \in noon : j <= i) - 1)
        ELSE iloc(frame, Rows(frame) \div 2)

\* df[df['time'].dt.hour == target_hour].iloc[0] if that selection is not empty,
\* else df.iloc[len(df)//2]
midday_row(frame) ==
    LET noon == {i \in 1..Rows(frame) : frame.data["time"][i].v = target_hour}
    IN  IF noon # {}
        THEN iloc(frame, (CHOOSE i \in noon : \A j \in noon : i <= j) - 1)
        ELSE iloc(frame, Rows(frame) \div 2)

-----------------------------------------------------------------------------
(* search_marine_life, app.py:108-135 *)

\* an element of the page: a widget, its text and, for an error, its cause
El(w, t, c) == [widget |-> w, text |-> t, cause |-> c]
Has(elements, w, t) ==
    \E i \in DOMAIN elements : elements[i].widget = w /\ elements[i].text = t

\* "情報の取得に失敗しました。"
FALLBACK_TEXT == "jouhou_no_shutoku_ni_shippai_shimashita"

\* the outcomes of tavily.search: it raises, or returns a dict
SearchRaises == [kind |-> "raises", status |-> 0, body |-> EmptyDict]
SearchReturns(body) == [kind |-> "returns", status |-> 200, body |-> body]
SearchOk(contents) ==
    SearchReturns([results |-> [i \in DOMAIN contents |->
                                  [title |-> "title", content |-> contents[i]]]])
SearchOutcomes ==
    { SearchRaises,
      SearchReturns([answer |-> "answer"]),
      SearchReturns([results |-> <<[title |-> "title"]>>]),
      SearchOk(<<>>),
      SearchOk(<<"content_1", "content_2">>) }

\* the outcomes of model.generate_content and of response.text: the call
\* raises, the response holds no text (response.text raises), or it holds one
GenRaises == [kind |-> "raises", status |-> 0, body |-> EmptyDict]
GenBlocked == [kind |-> "blocked", status |-> 200, body |-> EmptyDict]
GenOk(text) == [kind |-> "returns", status |-> 200, body |-> [text |-> text]]
GenOutcomes == {GenRaises, GenBlocked, GenOk("bio_list"), GenOk("unformatted_text")}

\* "\n".join(contents)
RECURSIVE Join(_)
Join(contents) ==
    IF Len(contents) = 0 THEN <<>>
    ELSE IF Len(contents) = 1 THEN <<contents[1]>>
    ELSE <<contents[1], "\n">> \o Join(Tail(contents))

\* st.error(f"生物情報の検索に失敗しました: {e}") and the spinner of app.py:113
BioError(e) == El("error", "bio_failed", e)
Spinner == El("spinner", "query", "")

\* a mutant of search_marine_life: the handler is `except KeyError` only, so a
\* failure of either provider escapes
search_marine_life_narrow(location, date, search, gen) ==
    LET caught(reqs, e) ==
            [raised |-> FALSE, exc |-> "", text |-> FALLBACK_TEXT,
             errors |-> <<Spinner, BioError(e)>>, calls |-> reqs]
        escaped(reqs, e) ==
            [raised |-> TRUE, exc |-> e, text |-> "",
             errors |-> <<Spinner>>, calls |-> reqs]
    IN  IF search.kind = "raises" THEN escaped(<<"tavily">>, "TavilyError")
        ELSE IF "results" \notin DOMAIN search.body
            THEN caught(<<"tavily">>, "KeyError")
        ELSE IF \E i \in DOMAIN search.body.results :
                    "content" \notin DOMAIN search.body.results[i]
            THEN caught(<<"tavily">>, "KeyError")
        ELSE IF gen.kind = "raises" THEN escaped(<<"tavily", "gemini">>, "GoogleAPIError")
        ELSE IF gen.kind = "blocked" THEN escaped(<<"tavily", "gemini">>, "ValueError")
        ELSE [raised |-> FALSE, exc |-> "", text |-> gen.body.text,
              errors |-> <<Spinner>>, calls |-> <<"tavily", "gemini">>]

\* The result of search_marine_life(location, date) for the two providers'
\* outcomes: whether an exception leaves the function, the text returned, what
\* it puts on the page and the calls issued.  `except Exception` catches every
\* failure of the try block.
search_marine_life(location, date, search, gen) ==
    LET month == date.month
        query == <<location, "diving", "seibutsu", month>>
        caught(reqs, e) ==
            [raised |-> FALSE, exc |-> "", text |-> FALLBACK_TEXT,
             errors |-> <<Spinner, BioError(e)>>, calls |-> reqs]
    IN  IF search.kind = "raises" THEN caught(<<"tavily">>, "TavilyError")
        ELSE IF "results" \notin DOMAIN search.body
            THEN caught(<<"tavily">>, "KeyError")
        ELSE IF \E i \in DOMAIN search.body.results :
                    "content" \notin DOMAIN search.body.results[i]
            THEN caught(<<"tavily">>, "KeyError")
        ELSE LET context == Join([i \in DOMAIN search.body.results |->
                                    search.body.results[i].content])
                 prompt == <<location, month, context>>
             IN  IF gen.kind = "raises"
                     THEN caught(<<"tavily", "gemini">>, "GoogleAPIError")
                 ELSE IF gen.kind = "blocked"
                     THEN caught(<<"tavily", "gemini">>, "ValueError")
                 ELSE [raised |-> FALSE, exc |-> "", text |-> gen.body.text,
                       errors |-> <<Spinner>>, calls |-> <<"tavily", "gemini">>]

-----------------------------------------------------------------------------
(* Startup, app.py:12-31 *)

\* the secret store: secrets.toml is missing, or lacks the [general] section
\* or one of the two keys, or holds both
SecretsEnvs == {"ok", "no_file", "no_general", "no_google_key", "no_tavily_key"}

\* app.py:12-17.  Reading st.secrets without a secrets.toml raises
\* FileNotFoundError, the one exception the handler names; a missing section or
\* key raises KeyError, which leaves the script.
load_secrets(env) ==
    CASE env = "no_file" -> [outcome |-> "stopped",
                             shown |-> <<El("error", "secrets_missing", "FileNotFoundError")>>]
      [] env \in {"no_general", "no_google_key", "no_tavily_key"} ->
                            [outcome |-> "crashed",
                             shown |-> <<El("exception", "KeyError", "app.py:13-14")>>]
      [] OTHER -> [outcome |-> "ok", shown |-> <<>>]

\* diving_spots.csv as pd.read_csv finds it
CsvEnvs == {"ok", "missing", "malformed", "no_name", "duplicate_name",
            "no_latlon", "empty"}

SpotRows ==
    << [name |-> "Spot A", lat |-> 34, lon |-> 139],
       [name |-> "Spot B", lat |-> 26, lon |-> 127] >>

CsvFile(env) ==
    CASE env = "missing" -> [exc |-> "FileNotFoundError", columns |-> {}, rows |-> <<>>]
      [] env = "malformed" -> [exc |-> "ParserError", columns |-> {}, rows |-> <<>>]
      [] env = "no_name" ->
            [exc |-> "", columns |-> {"spot", "lat", "lon"},
             rows |-> [i \in DOMAIN SpotRows |->
                        [spot |-> SpotRows[i].name, lat |-> SpotRows[i].lat,
                         lon |-> SpotRows[i].lon]]]
      [] env = "duplicate_name" ->
            [exc |-> "", columns |-> {"name", "lat", "lon"},
             rows |-> <<SpotRows[1], SpotRows[1]>>]
      [] env = "no_latlon" ->
            [exc |-> "", columns |-> {"name", "latitude", "longitude"},
             rows |-> [i \in DOMAIN SpotRows |->
                        [name |-> SpotRows[i].name, latitude |-> SpotRows[i].lat,
                         longitude |-> SpotRows[i].lon]]]
      [] env = "empty" -> [exc |-> "", columns |-> {"name", "lat", "lon"}, rows |-> <<>>]
      [] OTHER -> [exc |-> "", columns |-> {"name", "lat", "lon"}, rows |-> SpotRows]

\* pd.read_csv("diving_spots.csv").set_index("name").to_dict("index"):
\* read_csv raises on a missing or unparsable file, set_index on a missing
\* 'name' column, to_dict on a name that is not unique
load_spots(file) ==
    IF file.exc # "" THEN Raise(file.exc)
    ELSE IF "name" \notin file.columns THEN Raise("KeyError")
    ELSE IF \E i, j \in DOMAIN file.rows : i # j /\ file.rows[i].name = file.rows[j].name
        THEN Raise("ValueError")
    ELSE Return([n \in {file.rows[i].name : i \in DOMAIN file.rows} |->
                    LET i == CHOOSE j \in DOMAIN file.rows : file.rows[j].name = n
                    IN  [c \in file.columns \ {"name"} |-> file.rows[i][c]]])

-----------------------------------------------------------------------------
(* Upstream responses within bounds *)

\* the arrays of at most n elements of S
Arrays(S, n) == UNION {[1..k -> S] : k \in 0..n}

\* the hours a timestamp may carry, the weather codes an hourly array may
\* carry, and the sample every other array is filled with
Hours == {6, 12}
Codes == {Num(61), Null}
Samples(k) == [i \in 1..k |-> Num(1)]

\* the fields app.py:89-97 read, apart from 'time' and 'weather_code'
MarineUsed == {"wave_height", "wave_direction", "wave_period", "swell_wave_height"}
WeatherUsed == {"temperature_2m", "precipitation", "wind_speed_10m", "wind_direction_10m"}

\* no array deviates, or one field's array is absent (-1) or has its own length
NoDeviation == <<"", 0>>
Deviations(fields, n) == {NoDeviation} \cup (fields \X (-1..n))

\* the 'hourly' object of the marine endpoint
MarineHourly(times, dev) ==
    LET keys == ({"time", "swell_wave_direction"} \cup MarineUsed)
                    \ (IF dev[2] = -1 THEN {dev[1]} ELSE {})
    IN  [k \in keys |->
            IF k = "time" THEN times
            ELSE IF k = dev[1] THEN Samples(dev[2])
            ELSE Samples(Len(times))]

\* the 'hourly' object of the forecast endpoint
WeatherHourly(codes, dev) ==
    LET keys == ({"time", "weather_code"} \cup WeatherUsed)
                    \ (IF dev[2] = -1 THEN {dev[1]} ELSE {})
    IN  [k \in keys |->
            IF k = "time" THEN [i \in DOMAIN codes |-> Iso(0)]
            ELSE IF k = "weather_code" THEN codes
            ELSE IF k = dev[1] THEN Samples(dev[2])
            ELSE Samples(Len(codes))]

MarineResponses(n) ==
    {TransportError, NotJson, ErrorJson} \cup
    {OkJson(MarineHourly(t, d)) :
        t \in Arrays({Iso(h) : h \in Hours}, n), d \in Deviations(MarineUsed, n)}

WeatherResponses(n) ==
    {TransportError, NotJson, ErrorJson} \cup
    {OkJson(WeatherHourly(c, d)) :
        c \in Arrays(Codes, n), d \in Deviations(WeatherUsed, n)}

-----------------------------------------------------------------------------
(* Values of the variables before the script assigns them *)

NoResponse == [kind |-> "none", status |-> 0, body |-> EmptyDict]
NotRun == [raised |-> FALSE, exc |-> "", value |-> <<>>]
NoSelection == "<None>"
NoDate == [year |-> 0, month |-> 0, day |-> 0, ordinal |-> 0]
NoTrigger == [run |-> FALSE, stored |-> FALSE, data |-> <<>>]
NoCell == [t |-> "unset", v |-> 0]

-----------------------------------------------------------------------------
(* SpecFetch: get_meteo_data and the representative row, on every pair of   *)
(* upstream responses within MaxLen                                         *)

InitFetch ==
    /\ pc = "fetch"
    /\ marine_res \in MarineResponses(MaxLen)
    /\ weather_res \in WeatherResponses(MaxLen)
    /\ secrets_env = "ok"
    /\ csv_env = "ok"
    /\ event = "click"
    /\ DIVING_SPOTS = EmptyDict
    /\ selected_spot_name = NoSelection
    /\ selected_date = NoDate
    /\ start_btn = TRUE
    /\ search_res = NoResponse
    /\ gen_res = NoResponse
    /\ df = None
    /\ bio_info = ""
    /\ midday_data = NotRun
    /\ session_state = EmptyDict
    /\ page = <<>>
    /\ calls = <<>>
    /\ last_trigger = NoTrigger
    /\ code = NoCell
    /\ label = <<>>

\* df = get_meteo_data(lat, lon, date)
Fetch ==
    /\ pc = "fetch"
    /\ LET r == get_meteo_data(marine_res, weather_res)
       IN  /\ df' = r.df
           /\ page' = page \o r.errors
           /\ calls' = calls \o r.calls
    /\ pc' = "select"
    /\ UNCHANGED <<secrets_env, csv_env, event, DIVING_SPOTS, selected_spot_name,
                   selected_date, start_btn, marine_res, weather_res, search_res,
                   gen_res, bio_info, midday_data, session_state, last_trigger,
                   code, label>>

\* if df is not None: midday_data = ...
SelectMidday ==
    /\ pc = "select"
    /\ df # None
    /\ midday_data' = midday_row(df)
    /\ pc' = "done"
    /\ UNCHANGED <<secrets_env, csv_env, event, DIVING_SPOTS, selected_spot_name,
                   selected_date, start_btn, marine_res, weather_res, search_res,
                   gen_res, df, bio_info, session_state, page, calls,
                   last_trigger, code, label>>

NextFetch == Fetch \/ SelectMidday

SpecFetch == InitFetch /\ [][NextFetch]_vars

-----------------------------------------------------------------------------
(* SpecCode: the translation of app.py:101 on every cell within MaxCode *)

InitCode ==
    /\ pc = "translate"
    /\ code \in {Num(c) : c \in (0 - MaxCode)..MaxCode}
                \cup {Float(c) : c \in (0 - MaxCode)..MaxCode}
                \cup {NaN, NoneCell}
    /\ label = <<>>
    /\ marine_res = NoResponse
    /\ weather_res = NoResponse
    /\ secrets_env = "ok"
    /\ csv_env = "ok"
    /\ event = "click"
    /\ DIVING_SPOTS = EmptyDict
    /\ selected_spot_name = NoSelection
    /\ selected_date = NoDate
    /\ start_btn = TRUE
    /\ search_res = NoResponse
    /\ gen_res = NoResponse
    /\ df = None
    /\ bio_info = ""
    /\ midday_data = NotRun
    /\ session_state = EmptyDict
    /\ page = <<>>
    /\ calls = <<>>
    /\ last_trigger = NoTrigger

Translate ==
    /\ pc = "translate"
    /\ label' = weather_label(code)
    /\ pc' = "done"
    /\ UNCHANGED <<secrets_env, csv_env, event, DIVING_SPOTS, selected_spot_name,
                   selected_date, start_btn, marine_res, weather_res, search_res,
                   gen_res, df, bio_info, midday_data, session_state, page,
                   calls, last_trigger, code>>

NextCode == Translate

SpecCode == InitCode /\ [][NextCode]_vars

-----------------------------------------------------------------------------
(* Spec: the session, a sequence of runs of the script *)

\* the dates the date input may hold, and datetime.date.today()
today == [year |-> 2024, month |-> 8, day |-> 1, ordinal |-> 739099]
Dates == {[year |-> 2024, month |-> 7, day |-> 15, ordinal |-> 739082], today}

\* the upstream responses a trigger of the session may meet
SessionMarine ==
    { TransportError, ErrorJson,
      OkJson(MarineHourly(<<>>, NoDeviation)),
      OkJson(MarineHourly(<<Iso(6)>>, NoDeviation)),
      OkJson(MarineHourly(<<Iso(12)>>, NoDeviation)) }
SessionWeather ==
    { NotJson, ErrorJson,
      OkJson(WeatherHourly(<<>>, NoDeviation)),
      OkJson(WeatherHourly(<<Num(61)>>, NoDeviation)),
      OkJson(WeatherHourly(<<Num(999)>>, NoDeviation)) }

\* dict[key] = value
SetItem(d, key, value) ==
    [k \in DOMAIN d \cup {key} |-> IF k = key THEN value ELSE d[k]]

\* where a run ends: the script reached its last line, called st.stop(), or an
\* exception left it (Streamlit shows the exception and ends the run)
RunEnded == {"finished", "stopped", "crashed"}

Init ==
    /\ pc = "start"
    /\ secrets_env = "ok"
    /\ csv_env = "ok"
    /\ event = "open"
    /\ DIVING_SPOTS = EmptyDict
    /\ selected_spot_name = NoSelection
    /\ selected_date = NoDate
    /\ start_btn = FALSE
    /\ marine_res = NoResponse
    /\ weather_res = NoResponse
    /\ search_res = NoResponse
    /\ gen_res = NoResponse
    /\ df = None
    /\ bio_info = ""
    /\ midday_data = NotRun
    /\ session_state = EmptyDict
    /\ page = <<>>
    /\ calls = <<>>
    /\ last_trigger = NoTrigger
    /\ code = NoCell
    /\ label = <<>>

\* Streamlit starts a run: when the session opens, and on every interaction
\* with a widget of the page.  The button can be clicked only if the last run
\* rendered it.  Nothing but st.session_state survives.
Rerun ==
    /\ pc \in RunEnded \cup {"start"}
    /\ \E s \in SecretsEnvs, c \in CsvEnvs :
            /\ secrets_env' = s
            /\ csv_env' = c
    /\ event' \in (IF pc = "start" THEN {"open"}
                   ELSE {"input"} \cup
                        (IF Has(page, "button", "get_info") THEN {"click"} ELSE {}))
    /\ pc' = "secrets"
    /\ DIVING_SPOTS' = EmptyDict
    /\ selected_spot_name' = NoSelection
    /\ selected_date' = NoDate
    /\ start_btn' = FALSE
    /\ marine_res' = NoResponse
    /\ weather_res' = NoResponse
    /\ search_res' = NoResponse
    /\ gen_res' = NoResponse
    /\ df' = None
    /\ bio_info' = ""
    /\ midday_data' = NotRun
    /\ page' = <<>>
    /\ calls' = <<>>
    /\ UNCHANGED <<session_state, last_trigger, code, label>>

\* app.py:12-17
LoadSecrets ==
    /\ pc = "secrets"
    /\ LET r == load_secrets(secrets_env)
       IN  /\ page' = page \o r.shown
           /\ pc' = IF r.outcome = "ok" THEN "spots" ELSE r.outcome
    /\ UNCHANGED <<secrets_env, csv_env, event, DIVING_SPOTS, selected_spot_name,
                   selected_date, start_btn, marine_res, weather_res, search_res,
                   gen_res, df, bio_info, midday_data, session_state, calls,
                   last_trigger, code, label>>

\* app.py:27-31
LoadSpots ==
    /\ pc = "spots"
    /\ LET r == load_spots(CsvFile(csv_env))
       IN  IF r.raised
           THEN /\ page' = page \o <<El("error", "spots_failed", r.exc)>>
                /\ pc' = "stopped"
                /\ UNCHANGED DIVING_SPOTS
           ELSE /\ DIVING_SPOTS' = r.value
                /\ pc' = "ui"
                /\ UNCHANGED page
    /\ UNCHANGED <<secrets_env, csv_env, event, selected_spot_name,
                   selected_date, start_btn, marine_res, weather_res, search_res,
                   gen_res, df, bio_info, midday_data, session_state, calls,
                   last_trigger, code, label>>

\* app.py:139-154: the title, the two selection inputs, the warning for a date
\* more than 7 days back, and the button.  A selectbox without options
\* returns None.
BuildUI ==
    /\ pc = "ui"
    /\ \E spot \in (IF DOMAIN DIVING_SPOTS = {} THEN {NoSelection}
                    ELSE DOMAIN DIVING_SPOTS),
          date \in Dates :
            /\ selected_spot_name' = spot
            /\ selected_date' = date
            /\ page' = page
                \o <<El("title", "scuba_diving_agent", ""),
                     El("selectbox", "area", ""),
                     El("date_input", "date", "")>>
                \o (IF date.ordinal < today.ordinal - 7
                    THEN <<El("warning", "past_data", "")>> ELSE <<>>)
                \o <<El("button", "get_info", "")>>
    /\ start_btn' = (event = "click")
    /\ pc' = "main"
    /\ UNCHANGED <<secrets_env, csv_env, event, DIVING_SPOTS, marine_res,
                   weather_res, search_res, gen_res, df, bio_info, midday_data,
                   session_state, calls, last_trigger, code, label>>

\* app.py:157: no click started this run
SkipMain ==
    /\ pc = "main"
    /\ ~start_btn
    /\ pc' = "render"
    /\ UNCHANGED <<secrets_env, csv_env, event, DIVING_SPOTS, selected_spot_name,
                   selected_date, start_btn, marine_res, weather_res, search_res,
                   gen_res, df, bio_info, midday_data, session_state, page, calls,
                   last_trigger, code, label>>

\* app.py:158 and the arguments of app.py:161: the spot's coordinates
coords_found ==
    /\ selected_spot_name \in DOMAIN DIVING_SPOTS
    /\ {"lat", "lon"} \subseteq DOMAIN DIVING_SPOTS[selected_spot_name]

\* app.py:157-161: the trigger handler up to the forecast
MainFetch ==
    /\ pc = "main"
    /\ start_btn
    /\ IF ~coords_found
       THEN /\ page' = page \o <<El("exception", "KeyError", "app.py:158-161")>>
            /\ pc' = "crashed"
            /\ last_trigger' = [run |-> TRUE, stored |-> FALSE, data |-> <<>>]
            /\ UNCHANGED <<marine_res, weather_res, df, calls>>
       ELSE \E m \in SessionMarine, w \in SessionWeather :
            LET r == get_meteo_data(m, w)
            IN  /\ marine_res' = m
                /\ weather_res' = w
                /\ df' = r.df
                /\ page' = page \o r.errors
                /\ calls' = calls \o r.calls
                /\ last_trigger' =
                        [run |-> TRUE, stored |-> FALSE,
                         data |-> [spot_name |-> selected_spot_name,
                                   date |-> selected_date, df |-> r.df,
                                   bio_info |-> ""]]
                /\ pc' = "summarize"
    /\ UNCHANGED <<secrets_env, csv_env, event, DIVING_SPOTS, selected_spot_name,
                   selected_date, start_btn, search_res, gen_res, bio_info,
                   midday_data, session_state, code, label>>

\* app.py:162
MainSummarize ==
    /\ pc = "summarize"
    /\ \E s \in SearchOutcomes, g \in GenOutcomes :
        LET r == search_marine_life(selected_spot_name, selected_date, s, g)
        IN  /\ search_res' = s
            /\ gen_res' = g
            /\ calls' = calls \o r.calls
            /\ IF r.raised
               THEN /\ page' = page \o r.errors
                            \o <<El("exception", r.exc, "search_marine_life")>>
                    /\ pc' = "crashed"
                    /\ UNCHANGED <<bio_info, last_trigger>>
               ELSE /\ page' = page \o r.errors
                    /\ bio_info' = r.text
                    /\ last_trigger' = [last_trigger EXCEPT !.data.bio_info = r.text]
                    /\ pc' = "store"
    /\ UNCHANGED <<secrets_env, csv_env, event, DIVING_SPOTS, selected_spot_name,
                   selected_date, start_btn, marine_res, weather_res, df,
                   midday_data, session_state, code, label>>

\* app.py:165-170
display_data_entry ==
    [spot_name |-> selected_spot_name, date |-> selected_date,
     df |-> df, bio_info |-> bio_info]

MainStore ==
    /\ pc = "store"
    /\ session_state' = SetItem(session_state, "display_data", display_data_entry)
    /\ last_trigger' = [last_trigger EXCEPT !.stored = TRUE]
    /\ pc' = "render"
    /\ UNCHANGED <<secrets_env, csv_env, event, DIVING_SPOTS, selected_spot_name,
                   selected_date, start_btn, marine_res, weather_res, search_res,
                   gen_res, df, bio_info, midday_data, page, calls, code, label>>

\* app.py:208-215: the marine-life section
BioSection(data) ==
    <<El("markdown", "---", ""),
      El("header", "bio", ""),
      El("bio_markdown", data.bio_info, ""),
      El("info", "sources", "")>>

\* app.py:186-206: the four metrics and the two charts
ForecastSection ==
    <<El("metric", "tenki", ""), El("metric", "kion", ""),
      El("metric", "fuusoku", ""), El("metric", "hakou", ""),
      El("markdown", "---", ""), El("subheader", "jikeiretsu", ""),
      El("line_chart", "nami_uneri", ""), El("line_chart", "fuusoku_kion", "")>>

\* app.py:173-215: what rendering the cached entry puts on the page, the row
\* chosen, and how the script goes on
render(data) ==
    LET header == <<El("header", "forecast", "")>>
    IN  IF data.df = None
        THEN [shown |-> header \o BioSection(data), row |-> NotRun,
              outcome |-> "finished"]
        ELSE LET row == midday_row(data.df)
             IN  IF row.raised
                 THEN [shown |-> header \o <<El("exception", row.exc, "app.py:184")>>,
                       row |-> row, outcome |-> "crashed"]
                 ELSE [shown |-> header \o ForecastSection \o BioSection(data),
                       row |-> row, outcome |-> "finished"]

\* app.py:172-215
Render ==
    /\ pc = "render"
    /\ IF "display_data" \notin DOMAIN session_state
       THEN /\ pc' = "finished"
            /\ UNCHANGED <<df, midday_data, page>>
       ELSE LET data == session_state["display_data"]
                r == render(data)
            IN  /\ df' = data.df
                /\ midday_data' = r.row
                /\ page' = page \o r.shown
                /\ pc' = r.outcome
    /\ UNCHANGED <<secrets_env, csv_env, event, DIVING_SPOTS, selected_spot_name,
                   selected_date, start_btn, marine_res, weather_res, search_res,
                   gen_res, bio_info, session_state, calls, last_trigger,
                   code, label>>

Next ==
    \/ Rerun
    \/ LoadSecrets
    \/ LoadSpots
    \/ BuildUI
    \/ SkipMain
    \/ MainFetch
    \/ MainSummarize
    \/ MainStore
    \/ Render

Spec == Init /\ [][Next]_vars

-----------------------------------------------------------------------------
(* Properties *)

\* the marine response's hourly 'time' array, as app.py:81-85 read it
MarineTimes ==
    IF marine_res.kind = "json"
    THEN Get(Get(marine_res.body, "hourly", EmptyDict), "time", <<>>)
    ELSE <<>>

\* get_meteo_data has returned
Fetched == pc \in {"select", "done"}

\* the response is a success carrying an 'hourly' object
IsOk(res) == res.kind = "json" /\ res.status = 200 /\ "hourly" \in DOMAIN res.body

\* the arrays app.py:89-97 read from the two responses
MetricArrays ==
    {Get(marine_res.body.hourly, f, <<>>) : f \in MarineUsed} \cup
    {Get(weather_res.body.hourly, f, <<>>) : f \in WeatherUsed \cup {"weather_code"}}

\* C1: get_meteo_data returns None after reporting the error, or a table with
\* as many rows (in every column) as the marine response's 'time' array has
\* entries; it returns no table of another row count.
C1_RowCountIsMarineTimeAxis ==
    Fetched =>
        \/ df = None /\ Has(page, "error", "meteo_failed")
        \/ /\ df.kind = "DataFrame"
           /\ page = <<>>
           /\ Rows(df) = Len(MarineTimes)
           /\ \A c \in DOMAIN df.data : Len(df.data[c]) = Len(MarineTimes)

\* a table of several rows was returned
C1_Witness ==
    /\ Fetched
    /\ df.kind = "DataFrame"
    /\ Rows(df) >= 2
    /\ Rows(df) = Len(MarineTimes)

\* C2: with n > 0 entries on the marine time axis and a metric array absent or
\* shorter than n (none longer), the fetch succeeds with an n-row table.
C2_UndersizedArrayTolerated ==
    ( /\ Fetched
      /\ IsOk(marine_res) /\ IsOk(weather_res)
      /\ Len(MarineTimes) > 0
      /\ \A a \in MetricArrays : Len(a) <= Len(MarineTimes)
      /\ \E a \in MetricArrays : Len(a) < Len(MarineTimes) )
    => df.kind = "DataFrame" /\ Rows(df) = Len(MarineTimes)

\* C3: a transport failure, a non-success response or a malformed payload of
\* either endpoint makes the fetch return None with an error reported.
C3_EitherFailureFailsTheFetch ==
    ( /\ Fetched
      /\ \E res \in {marine_res, weather_res} :
            res.kind \in {"transport_error", "not_json"} \/ res.status # 200 )
    => df = None /\ Has(page, "error", "meteo_failed")

\* C10: of a non-empty table the representative row is the first row whose
\* timestamp has hour 12 if there is one, else the row at index floor(n/2);
\* it is one existing row of the table.
C10_MiddayRow ==
    (pc = "done" /\ Rows(df) > 0) =>
        /\ ~midday_data.raised
        /\ LET k == midday_data.value.name
               hours == [i \in 1..Rows(df) |-> df.data["time"][i].v]
           IN  /\ k \in 0..(Rows(df) - 1)
               /\ midday_data.value.data = [c \in DOMAIN df.data |-> df.data[c][k + 1]]
               /\ IF \E i \in 1..Rows(df) : hours[i] = 12
                  THEN hours[k + 1] = 12 /\ \A j \in 1..k : hours[j] # 12
                  ELSE 2 * k <= Rows(df) /\ Rows(df) < 2 * (k + 1)

\* a table with two rows at hour 12, and the first of them chosen
C10_Witness ==
    /\ pc = "done"
    /\ \E i, j \in 1..Rows(df) :
        /\ i < j
        /\ df.data["time"][i].v = 12
        /\ df.data["time"][j].v = 12
        /\ midday_data.value.name = i - 1

\* C5: the translation is total: every integer code (as an int cell, or as the
\* float cell of a column that held null) gets a non-empty label; a code of
\* WEATHER_CODE_MAP gets its label there (61: 雨(軽)); any other gets a label
\* that contains the code's decimal literal (999: a label containing "999").
C5_WeatherCodeTotal ==
    (pc = "done" /\ code.t \in {"int", "float"}) =>
        /\ label # <<>>
        /\ code.v = 61 => label = <<"ame", "(", "kei", ")">>
        /\ code.v = 999 => Contains(label, <<"9", "9", "9">>)
        /\ IF code.v \in DOMAIN WEATHER_CODE_MAP
           THEN label = WEATHER_CODE_MAP[code.v]
           ELSE Contains(label, IntStr(code.v))

\* code 999, absent from the map, translated to 不明(999)
C5_Witness ==
    /\ pc = "done"
    /\ code = Num(999)
    /\ label = <<"fu", "mei", "(", "9", "9", "9", ")">>

\* the search or the generation of this run failed
SummarizeFailed ==
    \/ search_res.kind = "raises"
    \/ "results" \notin DOMAIN search_res.body
    \/ \E i \in DOMAIN search_res.body.results :
            "content" \notin DOMAIN search_res.body.results[i]
    \/ gen_res.kind # "returns"

\* C6: no failure leaves search_marine_life: when the search or the generation
\* fails (or the search result lacks 'results' or 'content') the error is
\* reported and the text kept for display is the fallback string, which is not
\* empty; when both succeed the text is the model's, unmodified.
C6_SummarizeNeverEscapes ==
    /\ \A i \in DOMAIN page :
            ~(page[i].widget = "exception" /\ page[i].cause = "search_marine_life")
    /\ pc = "summarize" => ~Has(page, "error", "bio_failed")
    /\ pc = "store" =>
            IF SummarizeFailed
            THEN /\ bio_info = FALLBACK_TEXT
                 /\ bio_info # ""
                 /\ Has(page, "error", "bio_failed")
            ELSE /\ bio_info = gen_res.body.text
                 /\ ~Has(page, "error", "bio_failed")
    /\ (pc = "render" /\ start_btn) =>
            session_state["display_data"].bio_info =
                IF SummarizeFailed THEN FALLBACK_TEXT ELSE gen_res.body.text

\* the search raised, and the fallback text is what the handler stores
C6_Witness ==
    /\ pc = "render"
    /\ start_btn
    /\ search_res = SearchRaises
    /\ session_state["display_data"].bio_info = FALLBACK_TEXT
    /\ Has(page, "error", "bio_failed")

\* this run has started rendering the cached entry
Rendering == Has(page, "header", "forecast")

\* C4: an empty marine 'time' array gives a table of 0 rows whatever the
\* atmospheric response holds, and the run that renders a cached 0-row table
\* raises nothing and reaches the marine-life section.
C4_EmptyTimeAxisRenders ==
    /\ (IsOk(marine_res) /\ weather_res.kind = "json" /\ MarineTimes = <<>>)
            => df.kind = "DataFrame" /\ Rows(df) = 0
    /\ ( /\ pc \in RunEnded
         /\ Rendering
         /\ session_state["display_data"].df.kind = "DataFrame"
         /\ Rows(session_state["display_data"].df) = 0 )
            => pc = "finished" /\ Has(page, "header", "bio")

\* C7: whatever the fetch gave (None, an empty table, a table) and whether or
\* not the summary failed, the run that renders the entry shows the
\* marine-life section with the stored text, and shows the metrics and charts
\* of a table that has rows.
C7_BranchesDoNotBlockEachOther ==
    (pc \in RunEnded /\ Rendering) =>
        LET data == session_state["display_data"]
        IN  /\ Has(page, "header", "bio")
            /\ Has(page, "bio_markdown", data.bio_info)
            /\ (data.df.kind = "DataFrame" /\ Rows(data.df) > 0) =>
                    /\ Has(page, "metric", "tenki")
                    /\ Has(page, "line_chart", "nami_uneri")
                    /\ Has(page, "line_chart", "fuusoku_kion")

\* C8: at the end of every run the cache is absent if no trigger has happened,
\* and otherwise holds the spot name, date, forecast result and text of the
\* latest trigger; a run that no click started issues no call.
C8_CacheIsLatestTrigger ==
    /\ event # "click" => calls = <<>>
    /\ pc \in RunEnded =>
            IF last_trigger.run
            THEN /\ "display_data" \in DOMAIN session_state
                 /\ last_trigger.stored
                 /\ session_state["display_data"] = last_trigger.data
            ELSE "display_data" \notin DOMAIN session_state

\* a startup failure of this run, as C9 lists them
StartupFailure ==
    \/ secrets_env # "ok"
    \/ csv_env \in {"missing", "malformed", "no_name", "no_latlon"}

\* C9: a run whose startup fails never renders the selection inputs or the
\* button and issues no call, and it ends stopped, with a diagnostic on the page.
C9_StartupFailureStops ==
    (pc # "start" /\ StartupFailure) =>
        /\ ~Has(page, "selectbox", "area")
        /\ ~Has(page, "button", "get_info")
        /\ calls = <<>>
        /\ pc \in {"secrets", "spots"} \cup RunEnded
        /\ pc \in RunEnded =>
                \E i \in DOMAIN page : page[i].widget \in {"error", "exception"}

====
